---- MODULE Spec2Model ----
(***************************************************************************)
(* A model of src/main.py: the per-line validator parse_and_validate, the  *)
(* file loop process_file, calculate_statistics, generate_report and main. *)
(*                                                                         *)
(* Python's numbers are modelled by what they are.  An int is an           *)
(* arbitrary-precision integer (held as its decimal numeral), a float is   *)
(* an IEEE-754 binary64 value: nan, +-inf, or an exact dyadic m * 2^e      *)
(* whose operations round to nearest, ties to even, at 53 bits.            *)
(***************************************************************************)
EXTENDS Integers, Sequences, FiniteSets, TLC

(***************************************************************************)
(* Natural numbers of any size: little-endian sequences of limbs in        *)
(* 0..Base-1 with no leading (high) zero limb; <<>> is zero.               *)
(***************************************************************************)
Base == 2^15

Pow2Small(n) == CASE n = 0 -> 1 [] n = 1 -> 2 [] n = 2 -> 4 [] n = 3 -> 8
                  [] n = 4 -> 16 [] n = 5 -> 32 [] n = 6 -> 64 [] n = 7 -> 128
                  [] n = 8 -> 256 [] n = 9 -> 512 [] n = 10 -> 1024
                  [] n = 11 -> 2048 [] n = 12 -> 4096 [] n = 13 -> 8192
                  [] n = 14 -> 16384 [] n = 15 -> 32768

Max(a, b) == IF a >= b THEN a ELSE b

\* F(x) with x evaluated first (a call by value)
Strict(x, F(_)) == CHOOSE r \in {F(v) : v \in {x}} : TRUE

\* a without its high zero limbs
BNorm(a) ==
    IF a = <<>> \/ \A i \in 1..Len(a) : a[i] = 0 THEN <<>>
    ELSE SubSeq(a, 1, CHOOSE i \in 1..Len(a) :
                          a[i] # 0 /\ \A j \in (i + 1)..Len(a) : a[j] = 0)

BFromNat(n) == BNorm(<<n % Base, (n \div Base) % Base, n \div (Base * Base)>>)

BLimb(a, i) == IF i <= Len(a) THEN a[i] ELSE 0

\* The carry into limb i of a sum whose limb-wise sums are s (each below
\* 2 * Base): the nearest lower limb that is not Base - 1 decides it.
AddCarry(s, i) ==
    IF \A j \in 1..(i - 1) : s[j] = Base - 1 THEN 0
    ELSE LET j == CHOOSE j \in 1..(i - 1) :
                      s[j] # Base - 1 /\ \A k \in (j + 1)..(i - 1) : s[k] = Base - 1
         IN  IF s[j] >= Base THEN 1 ELSE 0

BAdd(a, b) ==
    IF a = <<>> THEN b
    ELSE IF b = <<>> THEN a
    ELSE LET n == Max(Len(a), Len(b))
             s == [i \in 1..n |-> BLimb(a, i) + BLimb(b, i)]
         IN  BNorm([i \in 1..(n + 1) |->
                      IF i <= n THEN (s[i] + AddCarry(s, i)) % Base ELSE AddCarry(s, i)])

\* The borrow into limb i of a difference whose limb-wise differences are d.
SubBorrow(d, i) ==
    IF \A j \in 1..(i - 1) : d[j] = 0 THEN 0
    ELSE LET j == CHOOSE j \in 1..(i - 1) :
                      d[j] # 0 /\ \A k \in (j + 1)..(i - 1) : d[k] = 0
         IN  IF d[j] < 0 THEN 1 ELSE 0

\* a - b for a >= b
BSub(a, b) ==
    IF b = <<>> THEN a
    ELSE IF a = b THEN <<>>
    ELSE LET d == [i \in 1..Len(a) |-> a[i] - BLimb(b, i)]
         IN  BNorm([i \in 1..Len(a) |-> (d[i] - SubBorrow(d, i)) % Base])

\* -1, 0, 1 as a < b, a = b, a > b
BCmp(a, b) ==
    IF Len(a) < Len(b) THEN -1
    ELSE IF Len(a) > Len(b) THEN 1
    ELSE IF a = b THEN 0
    ELSE LET i == CHOOSE i \in 1..Len(a) :
                      a[i] # b[i] /\ \A j \in (i + 1)..Len(a) : a[j] = b[j]
         IN  IF a[i] < b[i] THEN -1 ELSE 1

\* a * k + c for 0 <= k, c < Base: the low halves of the limb products plus
\* their high halves one limb up
BMulSmall(a, k, c) ==
    IF a = <<>> \/ k = 0 THEN BNorm(<<c>>)
    ELSE BAdd(BAdd(BNorm([i \in 1..Len(a) |-> (a[i] * k) % Base]),
                   BNorm([i \in 1..(Len(a) + 1) |->
                            IF i = 1 THEN 0 ELSE (a[i - 1] * k) \div Base])),
              BNorm(<<c>>))

BShlLimbs(a, n) == IF a = <<>> THEN <<>> ELSE [i \in 1..n |-> 0] \o a

\* a * b, halving b
RECURSIVE BMul(_, _)
BMul(a, b) ==
    IF b = <<>> \/ a = <<>> THEN <<>>
    ELSE IF Len(b) = 1 THEN BMulSmall(a, b[1], 0)
    ELSE LET h == Len(b) \div 2
         IN  BAdd(BMul(a, BNorm(SubSeq(b, 1, h))),
                  BShlLimbs(BMul(a, SubSeq(b, h + 1, Len(b))), h))

\* a * 2^n and floor(a / 2^n)
BShl(a, n) == BShlLimbs(BMulSmall(a, Pow2Small(n % 15), 0), n \div 15)

BShr(a, n) ==
    LET w == n \div 15
        x == IF n % 15 = 0 THEN a ELSE BMulSmall(a, Pow2Small(15 - (n % 15)), 0)
        k == IF n % 15 = 0 THEN w ELSE w + 1
    IN  IF a = <<>> \/ k >= Len(x) THEN <<>> ELSE SubSeq(x, k + 1, Len(x))

RECURSIVE SmallBitLen(_)
SmallBitLen(n) == IF n = 0 THEN 0 ELSE 1 + SmallBitLen(n \div 2)

BBitLen(a) == IF a = <<>> THEN 0
              ELSE 15 * (Len(a) - 1) + SmallBitLen(a[Len(a)])

BIsOdd(a) == a # <<>> /\ a[1] % 2 = 1

RECURSIVE SmallTrailingZeros(_)
SmallTrailingZeros(n) == IF n % 2 = 1 THEN 0 ELSE 1 + SmallTrailingZeros(n \div 2)

\* the number of trailing zero bits of a # 0
BTrailingZeros(a) ==
    LET i == CHOOSE i \in 1..Len(a) : a[i] # 0 /\ \A j \in 1..(i - 1) : a[j] = 0
    IN  15 * (i - 1) + SmallTrailingZeros(a[i])

\* floor(r / d) for r < d * Base, when the top limb of d is at least Base / 2:
\* the two top limbs of r over the top limb of d overshoot it by at most two
QuotientLimb(r, d) ==
    LET n   == Len(d)
        top == (BLimb(r, n + 1) * Base + BLimb(r, n)) \div d[n]
    IN  Strict(IF top >= Base THEN Base - 1 ELSE top, LAMBDA est :
        Strict(BMulSmall(d, est, 0), LAMBDA p :
               IF BCmp(p, r) <= 0 THEN est
               ELSE IF BCmp(BSub(p, d), r) <= 0 THEN est - 1
               ELSE est - 2))

\* one step of long division: the next quotient limb and remainder, from the
\* remainder r < d so far and the next limb of the dividend
DivStep(r, limb, d) ==
    Strict(BAdd(BShlLimbs(r, 1), <<limb>>), LAMBDA r2 :
    Strict(QuotientLimb(r2, d), LAMBDA k : <<k, BSub(r2, BMulSmall(d, k, 0))>>))

\* long division of the limbs n[1..i] below the running remainder r, r < d;
\* q holds the quotient limbs found so far
RECURSIVE BDivModFrom(_, _, _, _, _)
BDivModFrom(n, d, i, r, q) ==
    IF i = 0 THEN <<q, r>>
    ELSE Strict(DivStep(r, n[i], d), LAMBDA st :
                BDivModFrom(n, d, i - 1, st[2], <<st[1]>> \o q))

\* <<floor(n / d), n mod d>> for d # 0: both scaled so that the top limb of
\* the divisor is at least Base / 2, then divided limb by limb
BDivMod(n, d) ==
    LET sh == 15 - SmallBitLen(d[Len(d)])
    IN  Strict(<<BShl(n, sh), BShl(d, sh)>>, LAMBDA s :
        LET ns  == s[1]
            ds  == s[2]
            top == IF Len(ns) < Len(ds) THEN Len(ns) ELSE Len(ds) - 1
        IN  Strict(BDivModFrom(ns, ds, Len(ns) - top,
                               BNorm(SubSeq(ns, Len(ns) - top + 1, Len(ns))), <<>>),
                   LAMBDA res : <<BNorm(res[1]), BShr(res[2], sh)>>))

\* 10^k by squaring
RECURSIVE BPow10(_)
BPow10(k) == IF k = 0 THEN <<1>>
             ELSE LET h == BPow10(k \div 2)
                  IN  IF k % 2 = 0 THEN BMul(h, h) ELSE BMulSmall(BMul(h, h), 10, 0)

(***************************************************************************)
(* Python float: IEEE-754 binary64.  A finite value is neg, m, e standing  *)
(* for (-1)^neg * m * 2^e with m odd (or zero with e = 0), so equal values *)
(* are equal records.  Negative zero is folded into zero: no comparison or *)
(* result of the program tells them apart except in the sign of a printed  *)
(* zero.                                                                   *)
(***************************************************************************)
NaN == [k |-> "nan"]

Inf(neg) == [k |-> "inf", neg |-> neg]

FZero == [k |-> "fin", neg |-> FALSE, m |-> <<>>, e |-> 0]

\* m * 2^e, exact, in canonical form
FExact(neg, m, e) ==
    IF m = <<>> THEN FZero
    ELSE LET t == BTrailingZeros(m)
         IN  [k |-> "fin", neg |-> neg, m |-> BShr(m, t), e |-> e + t]

\* the binary64 nearest to m * 2^e, ties to even: 53 significant bits, the
\* least exponent -1074 (subnormals keep fewer bits), 2^1024 and above is inf
FRoundDyadic(neg, m, e) ==
    IF m = <<>> THEN FZero
    ELSE IF BBitLen(m) + e > 1025 THEN Inf(neg)
    ELSE Strict(Max(BBitLen(m) - 53, (0 - 1074) - e), LAMBDA s :
         IF s <= 0 THEN FExact(neg, m, e)
         ELSE Strict(BShr(m, s), LAMBDA q0 :
              Strict(BSub(m, BShl(q0, s)), LAMBDA rem :
              Strict(BCmp(rem, BShl(<<1>>, s - 1)), LAMBDA c :
              Strict(IF c > 0 \/ (c = 0 /\ BIsOdd(q0)) THEN BAdd(q0, <<1>>) ELSE q0,
                     LAMBDA q :
                     IF q = <<>> THEN FZero
                     ELSE IF BBitLen(q) + e + s > 1024 THEN Inf(neg)
                     ELSE FExact(neg, q, e + s))))))

\* the binary64 nearest to (num / den) * 2^e2 for num, den > 0: the quotient
\* to 56 or 57 bits with a sticky bit for the remainder, then rounded
FRoundRational(neg, num, den, e2) ==
    LET t == 56 - (BBitLen(num) - BBitLen(den))
    IN  Strict(BDivMod(IF t >= 0 THEN BShl(num, t) ELSE num,
                       IF t >= 0 THEN den ELSE BShl(den, 0 - t)), LAMBDA qr :
               FRoundDyadic(neg, BMulSmall(qr[1], 2, IF qr[2] = <<>> THEN 0 ELSE 1),
                            e2 - t - 1))

FNeg(a) == IF a.k = "nan" THEN a
           ELSE IF a.k = "inf" THEN Inf(~a.neg)
           ELSE IF a.m = <<>> THEN a
           ELSE [a EXCEPT !.neg = ~a.neg]

FIsZero(a) == a.k = "fin" /\ a.m = <<>>

\* -1, 0, 1 for two values that are not nan
FCmp(a, b) ==
    IF a.k = "inf" \/ b.k = "inf"
    THEN (IF a = b THEN 0
          ELSE IF a.k = "inf" THEN (IF a.neg THEN -1 ELSE 1)
          ELSE (IF b.neg THEN 1 ELSE -1))
    ELSE IF FIsZero(a) /\ FIsZero(b) THEN 0
    ELSE IF FIsZero(a) THEN (IF b.neg THEN 1 ELSE -1)
    ELSE IF FIsZero(b) THEN (IF a.neg THEN -1 ELSE 1)
    ELSE IF a.neg # b.neg THEN (IF a.neg THEN -1 ELSE 1)
    ELSE LET e  == IF a.e <= b.e THEN a.e ELSE b.e
             c  == BCmp(BShl(a.m, a.e - e), BShl(b.m, b.e - e))
         IN  IF a.neg THEN 0 - c ELSE c

\* Python's <, <=, > on floats: FALSE whenever an operand is nan
FLt(a, b) == a.k # "nan" /\ b.k # "nan" /\ FCmp(a, b) < 0

FLe(a, b) == a.k # "nan" /\ b.k # "nan" /\ FCmp(a, b) <= 0

FGt(a, b) == FLt(b, a)

FAdd(a, b) ==
    IF a.k = "nan" \/ b.k = "nan" THEN NaN
    ELSE IF a.k = "inf" /\ b.k = "inf" THEN (IF a.neg = b.neg THEN a ELSE NaN)
    ELSE IF a.k = "inf" THEN a
    ELSE IF b.k = "inf" THEN b
    ELSE IF FIsZero(a) THEN b
    ELSE IF FIsZero(b) THEN a
    ELSE LET e  == IF a.e <= b.e THEN a.e ELSE b.e
             x  == BShl(a.m, a.e - e)
             y  == BShl(b.m, b.e - e)
             c  == BCmp(x, y)
         IN  IF a.neg = b.neg THEN FRoundDyadic(a.neg, BAdd(x, y), e)
             ELSE IF c = 0 THEN FZero
             ELSE IF c > 0 THEN FRoundDyadic(a.neg, BSub(x, y), e)
             ELSE FRoundDyadic(b.neg, BSub(y, x), e)

FSub(a, b) == FAdd(a, FNeg(b))

FMul(a, b) ==
    IF a.k = "nan" \/ b.k = "nan" THEN NaN
    ELSE IF a.k = "inf" \/ b.k = "inf"
    THEN (IF FIsZero(a) \/ FIsZero(b) THEN NaN ELSE Inf(a.neg # b.neg))
    ELSE IF FIsZero(a) \/ FIsZero(b) THEN FZero
    ELSE FRoundDyadic(a.neg # b.neg, BMul(a.m, b.m), a.e + b.e)

\* a / b for b # 0 (Python raises ZeroDivisionError on b = 0)
FDiv(a, b) ==
    IF a.k = "nan" \/ b.k = "nan" THEN NaN
    ELSE IF a.k = "inf" THEN (IF b.k = "inf" THEN NaN ELSE Inf(a.neg # b.neg))
    ELSE IF b.k = "inf" \/ FIsZero(a) THEN FZero
    ELSE FRoundRational(a.neg # b.neg, a.m, b.m, a.e - b.e)

\* round(x, 2): the exact value of x rounded half-even to two decimals (the
\* correctly rounded decimal string), converted back to the nearest binary64
PyRound2(x) ==
    IF x.k # "fin" \/ x.e >= 0 THEN x
    ELSE LET n   == BMulSmall(x.m, 100, 0)
             s   == 0 - x.e
             q0  == BShr(n, s)
             c   == BCmp(BSub(n, BShl(q0, s)), BShl(<<1>>, s - 1))
             q   == IF c > 0 \/ (c = 0 /\ BIsOdd(q0)) THEN BAdd(q0, <<1>>) ELSE q0
         IN  IF q = <<>> THEN FZero ELSE FRoundRational(x.neg, q, <<100>>, 0)

(***************************************************************************)
(* Strings, character by character.                                        *)
(***************************************************************************)
Char(s, i) == SubSeq(s, i, i)

\* the whitespace str.strip(), int() and float() drop (of ASCII: these four,
\* and the rarely met \v, \f and the separators 0x1c-0x1f)
Whitespace == {" ", "\t", "\n", "\r"}

Digits == {"0", "1", "2", "3", "4", "5", "6", "7", "8", "9"}

DigitVal(c) == CASE c = "0" -> 0 [] c = "1" -> 1 [] c = "2" -> 2 [] c = "3" -> 3
                 [] c = "4" -> 4 [] c = "5" -> 5 [] c = "6" -> 6 [] c = "7" -> 7
                 [] c = "8" -> 8 [] c = "9" -> 9

\* str.strip(): s without its leading and trailing whitespace
strip(s) ==
    LET I == {i \in 1..Len(s) : Char(s, i) \notin Whitespace}
    IN  IF I = {} THEN ""
        ELSE SubSeq(s, CHOOSE i \in I : \A j \in I : i <= j,
                       CHOOSE i \in I : \A j \in I : i >= j)

\* str.split(sep) for a one-character sep: the pieces between the separators
split(s, sep) ==
    LET P      == {i \in 1..Len(s) : Char(s, i) = sep}
        Pos(k) == IF k = 0 THEN 0
                  ELSE IF k > Cardinality(P) THEN Len(s) + 1
                  ELSE CHOOSE p \in P : Cardinality({q \in P : q < p}) = k - 1
    IN  [k \in 1..(Cardinality(P) + 1) |-> SubSeq(s, Pos(k - 1) + 1, Pos(k) - 1)]

\* str.lower() on the letters a float literal can hold
LowerChar(c) == CASE c = "I" -> "i" [] c = "N" -> "n" [] c = "F" -> "f"
                  [] c = "A" -> "a" [] c = "T" -> "t" [] c = "Y" -> "y"
                  [] c = "E" -> "e" [] OTHER -> c

\* a run of digits in which single underscores may stand between digits
IsDigitGroup(s) ==
    /\ Len(s) > 0
    /\ \A i \in 1..Len(s) : Char(s, i) \in Digits \cup {"_"}
    /\ Char(s, 1) # "_" /\ Char(s, Len(s)) # "_"
    /\ \A i \in 1..(Len(s) - 1) : ~(Char(s, i) = "_" /\ Char(s, i + 1) = "_")

\* the positions of the digits of a digit group, in order
DigitPositions(s) ==
    LET P == {i \in 1..Len(s) : Char(s, i) # "_"}
    IN  IF Cardinality(P) = Len(s) THEN [k \in 1..Len(s) |-> k]
        ELSE [k \in 1..Cardinality(P) |->
                CHOOSE p \in P : Cardinality({q \in P : q < p}) = k - 1]

\* the number written by the digits s[pos[lo]] .. s[pos[hi]]: up to eight
\* digits directly, more by halves
RECURSIVE DigitsValue(_, _, _, _)
DigitsValue(s, pos, lo, hi) ==
    IF hi < lo THEN <<>>
    ELSE IF hi - lo < 8
    THEN LET D(i) == IF i >= lo THEN DigitVal(Char(s, pos[i])) ELSE 0
         IN  BFromNat(D(hi - 7) * 10000000 + D(hi - 6) * 1000000 + D(hi - 5) * 100000
                        + D(hi - 4) * 10000 + D(hi - 3) * 1000 + D(hi - 2) * 100
                        + D(hi - 1) * 10 + D(hi))
    ELSE LET mid == (lo + hi) \div 2
         IN  BAdd(BMul(DigitsValue(s, pos, lo, mid), BPow10(hi - mid)),
                  DigitsValue(s, pos, mid + 1, hi))

GroupValue(s) == LET pos == DigitPositions(s) IN DigitsValue(s, pos, 1, Len(pos))

HasSign(s) == Len(s) > 0 /\ Char(s, 1) \in {"+", "-"}

Unsigned(s) == IF HasSign(s) THEN SubSeq(s, 2, Len(s)) ELSE s

(***************************************************************************)
(* Python int, of any size: its decimal numeral, "0", "17", "-3" (no plus  *)
(* sign, no leading zero, no negative zero), so equal ints are equal       *)
(* strings.                                                                *)
(***************************************************************************)
IntIsNeg(i) == Char(i, 1) = "-"

IntIsZero(i) == i = "0"

\* s without its underscores, by halves
RECURSIVE DropUnderscores(_)
DropUnderscores(s) ==
    IF \A i \in 1..Len(s) : Char(s, i) # "_" THEN s
    ELSE IF Len(s) = 1 THEN ""
    ELSE DropUnderscores(SubSeq(s, 1, Len(s) \div 2))
           \o DropUnderscores(SubSeq(s, (Len(s) \div 2) + 1, Len(s)))

\* a digit string without its leading zeros ("0" for zero)
DropLeadingZeros(s) ==
    LET N == {i \in 1..Len(s) : Char(s, i) # "0"}
    IN  IF N = {} THEN "0" ELSE SubSeq(s, CHOOSE i \in N : \A j \in N : i <= j, Len(s))

\* int(str): whitespace stripped, an optional sign, a digit group; more than
\* 4300 digits is a ValueError too (the interpreter's default limit)
int(raw) ==
    LET t    == strip(raw)
        body == Unsigned(t)
        ds   == DropLeadingZeros(DropUnderscores(body))
    IN  IF ~IsDigitGroup(body) THEN [exc |-> "ValueError"]
        ELSE IF Len(DropUnderscores(body)) > 4300 THEN [exc |-> "ValueError"]
        ELSE [exc |-> "none",
              val |-> IF HasSign(t) /\ Char(t, 1) = "-" /\ ds # "0" THEN "-" \o ds ELSE ds]

(***************************************************************************)
(* float(str): whitespace stripped, an optional sign, then inf, infinity   *)
(* or nan in any case, or digits with an optional point and an optional    *)
(* exponent; the value is the binary64 nearest to the decimal written.     *)
(***************************************************************************)
RECURSIVE lower(_)
lower(s) == IF Len(s) = 0 THEN ""
            ELSE IF Len(s) = 1 THEN LowerChar(s)
            ELSE lower(SubSeq(s, 1, Len(s) \div 2))
                   \o lower(SubSeq(s, (Len(s) \div 2) + 1, Len(s)))

\* the binary64 nearest to digits * 10^exp10.  The two shortcuts bound the
\* value by powers of two (10 = 2^3.3219...): above 2^1025 it is inf, below
\* 2^-1076 it is zero.
DecimalToFloat(neg, digits, exp10) ==
    IF digits = <<>> THEN FZero
    ELSE IF exp10 > 0 /\ (BBitLen(digits) - 1) * 1000 + exp10 * 3321 > 1025000
    THEN Inf(neg)
    ELSE IF exp10 < 0 /\ BBitLen(digits) * 1000 + exp10 * 3321 < 0 - 1076000
    THEN FZero
    ELSE IF exp10 >= 0 THEN FRoundDyadic(neg, BMul(digits, BPow10(exp10)), 0)
    ELSE FRoundRational(neg, digits, BPow10(0 - exp10), 0)

\* the first position of the character c in s, Len(s) + 1 when it has none
FirstIndex(s, c) ==
    LET I == {i \in 1..Len(s) : Char(s, i) = c}
    IN  IF I = {} THEN Len(s) + 1 ELSE CHOOSE i \in I : \A j \in I : i <= j

\* the exponent written: eabs its digits' value; beyond one limb it is out of
\* every binary64's range
ExponentOf(minus, eabs) ==
    IF eabs = <<>> THEN 0
    ELSE IF Len(eabs) > 1 THEN (IF minus THEN 0 - 99999 ELSE 99999)
    ELSE IF minus THEN 0 - BLimb(eabs, 1)
    ELSE BLimb(eabs, 1)

FloatExponent(expo) == ExponentOf(Char(expo, 1) = "-", GroupValue(Unsigned(expo)))

\* the value of the digits ip before and fp after the point, nfrac of them
\* after it, times 10^ex; 310 digits before the point are beyond every
\* binary64
FloatValue(neg, ip, fp, nfrac, ex) ==
    IF ex >= 0 /\ ip # "" /\ Len(DropLeadingZeros(DropUnderscores(ip))) >= 310
    THEN Inf(neg)
    ELSE DecimalToFloat(neg,
                        BAdd(BMul(IF ip = "" THEN <<>> ELSE GroupValue(ip), BPow10(nfrac)),
                             IF fp = "" THEN <<>> ELSE GroupValue(fp)),
                        ex - nfrac)

FloatFields(neg, ip, fp, points, hasE, expo) ==
    IF \/ points > 1
       \/ (ip = "" /\ fp = "")
       \/ (ip # "" /\ ~IsDigitGroup(ip))
       \/ (fp # "" /\ ~IsDigitGroup(fp))
       \/ (hasE /\ ~IsDigitGroup(Unsigned(expo)))
    THEN [exc |-> "ValueError"]
    ELSE [exc |-> "none",
          val |-> FloatValue(neg, ip, fp,
                             IF fp = "" THEN 0 ELSE Len(DigitPositions(fp)),
                             IF hasE THEN FloatExponent(expo) ELSE 0)]

FloatMantissa(neg, mant, hasE, expo) ==
    FloatFields(neg,
                SubSeq(mant, 1, FirstIndex(mant, ".") - 1),
                SubSeq(mant, FirstIndex(mant, ".") + 1, Len(mant)),
                Cardinality({i \in 1..Len(mant) : Char(mant, i) = "."}),
                hasE, expo)

FloatBody(neg, body) ==
    IF body \in {"inf", "infinity"} THEN [exc |-> "none", val |-> Inf(neg)]
    ELSE IF body = "nan" THEN [exc |-> "none", val |-> NaN]
    ELSE FloatMantissa(neg,
                       SubSeq(body, 1, FirstIndex(body, "e") - 1),
                       FirstIndex(body, "e") <= Len(body),
                       SubSeq(body, FirstIndex(body, "e") + 1, Len(body)))

FloatText(t) == FloatBody(HasSign(t) /\ Char(t, 1) = "-", lower(Unsigned(t)))

float(raw) == FloatText(strip(raw))

\* float(i) for an int i: the nearest binary64, or OverflowError ("int too
\* large to convert to float") when that is not finite.  310 digits and more
\* are beyond every binary64.
IntToFloat(i) ==
    LET ds == Unsigned(i)
        f  == FRoundDyadic(IntIsNeg(i), GroupValue(ds), 0)
    IN  IF Len(ds) >= 310 \/ f.k = "inf" THEN [exc |-> "OverflowError"]
        ELSE [exc |-> "none", val |-> f]

\* the float of a small integer literal of the program (0, 1, 20, 50, 100)
FloatOf(n) == FExact(n < 0, BFromNat(IF n < 0 THEN 0 - n ELSE n), 0)

(***************************************************************************)
(* datetime.strptime(s, "%Y-%m-%d").date() and the comparison with today.  *)
(* The format compiles to the regular expression                           *)
(*   (\d\d\d\d)-(1[0-2]|0[1-9]|[1-9])-(3[0-1]|[1-2]\d|0[1-9]|[1-9]| [1-9]) *)
(* which must match the whole string; no alternative holds a "-", so the   *)
(* string matches exactly when it splits on "-" into a year, a month and a *)
(* day that each match.  The three numbers must then name a real day.      *)
(***************************************************************************)
AllDigits(s) == \A i \in 1..Len(s) : Char(s, i) \in Digits

\* the value of a string of at most four digits
SmallNumber(s) ==
    LET D(i) == IF i >= 1 THEN DigitVal(Char(s, i)) ELSE 0
        n    == Len(s)
    IN  D(n - 3) * 1000 + D(n - 2) * 100 + D(n - 1) * 10 + D(n)

\* %m: 1[0-2]|0[1-9]|[1-9]
IsMonthText(s) ==
    \/ Len(s) = 2 /\ Char(s, 1) = "1" /\ Char(s, 2) \in {"0", "1", "2"}
    \/ Len(s) = 2 /\ Char(s, 1) = "0" /\ Char(s, 2) \in Digits \ {"0"}
    \/ Len(s) = 1 /\ s \in Digits \ {"0"}

\* %d: 3[0-1]|[1-2]\d|0[1-9]|[1-9]| [1-9]
IsDayText(s) ==
    \/ Len(s) = 2 /\ Char(s, 1) = "3" /\ Char(s, 2) \in {"0", "1"}
    \/ Len(s) = 2 /\ Char(s, 1) \in {"1", "2"} /\ Char(s, 2) \in Digits
    \/ Len(s) = 2 /\ Char(s, 1) \in {"0", " "} /\ Char(s, 2) \in Digits \ {"0"}
    \/ Len(s) = 1 /\ s \in Digits \ {"0"}

IsLeapYear(y) == y % 4 = 0 /\ (y % 100 # 0 \/ y % 400 = 0)

DaysInMonth(y, m) ==
    IF m = 2 THEN (IF IsLeapYear(y) THEN 29 ELSE 28)
    ELSE IF m \in {4, 6, 9, 11} THEN 30
    ELSE 31

\* the date <<year, month, day>>, or ValueError
strptime(s) ==
    LET p == split(s, "-")
        y == SmallNumber(p[1])
        m == SmallNumber(p[2])
        d == SmallNumber(strip(p[3]))
    IN  IF Len(p) # 3 THEN [exc |-> "ValueError"]
        ELSE IF ~(Len(p[1]) = 4 /\ AllDigits(p[1]) /\ IsMonthText(p[2]) /\ IsDayText(p[3]))
        THEN [exc |-> "ValueError"]
        ELSE IF y < 1 \/ d > DaysInMonth(y, m) THEN [exc |-> "ValueError"]
        ELSE [exc |-> "none", val |-> <<y, m, d>>]

\* a > b on dates
DateAfter(a, b) ==
    \/ a[1] > b[1]
    \/ a[1] = b[1] /\ a[2] > b[2]
    \/ a[1] = b[1] /\ a[2] = b[2] /\ a[3] > b[3]

\* datetime.today().date(): the day of the run
Today == <<2026, 11, 2>>

(***************************************************************************)
(* parse_and_validate.  An exception is a record with its class in exc; a  *)
(* value returned is [exc |-> "none", val |-> ...].  The messages of the   *)
(* program are Russian; each is written here by its meaning.               *)
(***************************************************************************)
DELIMITER == ";"

ALLOWED_CATEGORIES == {"electronics", "food", "books", "clothes"}

ValidationError(msg) == [exc |-> "ValidationError", msg |-> msg]

Return(v) == [exc |-> "none", val |-> v]

MsgFieldCount     == "wrong field count"
MsgIdPositive     == "id must be positive"
MsgIdUnique       == "id must be unique"
MsgIdFormat       == "id is not a number"
MsgNameLength     == "invalid name length"
MsgCategory       == "unknown category"
MsgPricePositive  == "price must be greater than zero"
MsgPriceFormat    == "price has an invalid format"
MsgQtyNegative    == "quantity cannot be negative"
MsgQtyFormat      == "quantity is not an integer"
MsgDiscountRange  == "discount outside of 0-50"
MsgDiscountFormat == "discount has an invalid format"
MsgFoodDiscount   == "discount too large for food"
MsgDateFuture     == "date is in the future"
MsgDateFormat     == "invalid date format"
MsgFinalPrice     == "final price below 1"
MsgEmptyLine      == "empty line"

\* parts = line.strip().split(DELIMITER)
Parts(line) == split(strip(line), DELIMITER)

\* final_price = price * (1 - discount / 100)
FinalPrice(price, discount) ==
    FMul(price, FSub(FloatOf(1), FDiv(discount, FloatOf(100))))

\* if final_price < 1, and the variant that would test the rounded value
BelowFloorRounded(final_price) == FLt(PyRound2(final_price), FloatOf(1))

BelowFloor(final_price) == FLt(final_price, FloatOf(1))

\* final_price * quantity, a float times an int: the int is converted to a
\* float first, which raises OverflowError when it is too large.  The code
\* multiplies the unrounded final_price (TotalValue); TotalValueFromRounded
\* is the variant that would multiply the rounded one.
TotalValueFromRounded(final_price, quantity) ==
    LET qf == IntToFloat(quantity)
    IN  IF qf.exc # "none" THEN qf ELSE Return(FMul(PyRound2(final_price), qf.val))

TotalValue(final_price, quantity) ==
    LET qf == IntToFloat(quantity)
    IN  IF qf.exc # "none" THEN qf ELSE Return(FMul(final_price, qf.val))

\* return {...}: the record, final_price and total_value rounded to two
\* places, each from the unrounded value
MakeRecord(record_id, name, category, quantity, final_price, total) ==
    IF total.exc # "none" THEN total
    ELSE Return([id          |-> record_id,
                 name        |-> name,
                 category    |-> category,
                 final_price |-> PyRound2(final_price),
                 quantity    |-> quantity,
                 total_value |-> PyRound2(total.val)])

\* the floor on the final price, then the record
PricedFields(record_id, name, category, quantity, final_price) ==
    IF BelowFloor(final_price) THEN ValidationError(MsgFinalPrice)
    ELSE MakeRecord(record_id, name, category, quantity, final_price,
                    TotalValue(final_price, quantity))

\* the checks of the fields as parsed, in the order of the code; the first
\* that fails raises
ParsedFields(record_id, name, category, price, quantity, discount, created_at) ==
    IF Len(name) < 3 \/ Len(name) > 50 THEN ValidationError(MsgNameLength)
    ELSE IF category \notin ALLOWED_CATEGORIES THEN ValidationError(MsgCategory)
    ELSE IF price.exc = "ValueError" THEN ValidationError(MsgPriceFormat)
    ELSE IF FLe(price.val, FloatOf(0)) THEN ValidationError(MsgPricePositive)
    ELSE IF quantity.exc = "ValueError" THEN ValidationError(MsgQtyFormat)
    ELSE IF IntIsNeg(quantity.val) THEN ValidationError(MsgQtyNegative)
    ELSE IF discount.exc = "ValueError" THEN ValidationError(MsgDiscountFormat)
    ELSE IF FLt(discount.val, FloatOf(0)) \/ FGt(discount.val, FloatOf(50))
    THEN ValidationError(MsgDiscountRange)
    ELSE IF category = "food" /\ FGt(discount.val, FloatOf(20))
    THEN ValidationError(MsgFoodDiscount)
    ELSE IF created_at.exc = "ValueError" THEN ValidationError(MsgDateFormat)
    ELSE IF DateAfter(created_at.val, Today) THEN ValidationError(MsgDateFuture)
    ELSE PricedFields(record_id, name, category, quantity.val,
                      FinalPrice(price.val, discount.val))

\* The head of parse_and_validate, up to the sign check of the id: the id,
\* or the ValidationError raised before it is looked up in used_ids
IdCheck(line) ==
    LET parts     == Parts(line)
        record_id == int(parts[1])
    IN  IF Len(parts) # 7 THEN ValidationError(MsgFieldCount)
        ELSE IF record_id.exc = "ValueError" THEN ValidationError(MsgIdFormat)
        ELSE IF IntIsNeg(record_id.val) \/ IntIsZero(record_id.val)
        THEN ValidationError(MsgIdPositive)
        ELSE record_id

\* The rest of parse_and_validate, after the id has been added to used_ids:
\* the record returned, or the exception raised
FieldChecks(line, record_id) ==
    ParsedFields(record_id, strip(Parts(line)[2]), Parts(line)[3],
                 float(Parts(line)[4]), int(Parts(line)[5]),
                 float(Parts(line)[6]), strptime(Parts(line)[7]))

(***************************************************************************)
(* The input: the lines a run may find in input.txt, each with its line    *)
(* end.  InputLines meets every rule of the validator and both of its      *)
(* numeric edges; StatsLines are accepted lines whose values add up        *)
(* differently in different orders.                                        *)
(***************************************************************************)
MaxLines == 2

MaxStatsLines == 3

HugeQuantity == "10000000000000000000000000000000000000000000000000000000000000000000000000000000000000000000000000000000000000000000000000000000000000000000000000000000000000000000000000000000000000000000000000000000000000000000000000000000000000000000000000000000000000000000000000000000000000000000000000000000000000000000000000000000000000000000000000000000000000000000000000000000000000000000000000000000000000000"

InputLines ==
    { "1;Widget;electronics;100.00;2;10;2020-01-01\n",
      "2;Widget;food;50.00;2;25;2020-01-01\n",
      "3;AB;books;20;1;0;2020-01-01\n",
      "1;Other;clothes;30;1;0;2020-01-01\n",
      " 03 ;Gadget;clothes;3e1;1_0;.5;2020-2-29\n",
      "\n",
      "  \t\n",
      "5;Widget;books;20;1;0\n",
      "x1;AB;toys;abc;-1;99;bad\n",
      "0;Widget;books;20;1;0;2020-01-01\n",
      "8;Widget;toys;-5;1;0;2020-01-01\n",
      "9;Widget;books;abc;1;0;2020-01-01\n",
      "9;Widget;books;-5;1.5;0;2020-01-01\n",
      "10;Widget;books;nan;1;0;2020-01-01\n",
      "11;Widget;books;20;1.5;0;2020-01-01\n",
      "11;Widget;books;20;-1;0;2020-01-01\n",
      "12;Widget;books;20;1;ten;2020-01-01\n",
      "12;Widget;books;20;1;60;2020-01-01\n",
      "13;Widget;books;20;1;0;2021-02-29\n",
      "13;Widget;books;20;1;0;2999-01-01\n",
      "14;Widget;books;0.997;1;0;2020-01-01\n",
      "15;Widget;books;1.004;10;0;2020-01-01\n",
      "16;Widget;books;10;" \o HugeQuantity \o ";0;2020-01-01\n" }

StatsLines ==
    { "21;Apples;food;4.4;1;0;2020-01-01\n",
      "22;Novel;books;9.9;1;0;2020-01-01\n",
      "23;Atlas;books;46.62;1;0;2020-01-01\n",
      "24;Shirt;clothes;19.99;3;0;2020-01-01\n" }

AllLines == InputLines \cup StatsLines

\* IdCheck and FieldChecks read nothing but the line: their values, once for
\* every line of the inputs
CheckedEntry(line, id) ==
    [line   |-> line,
     id     |-> id,
     fields |-> IF id.exc = "none" THEN FieldChecks(line, id.val) ELSE id]

Checked == {CheckedEntry(l, IdCheck(l)) : l \in AllLines}

CheckedLine(line) == CHOOSE c \in Checked : c.line = line

\* The id against used_ids, between the two halves: what parse_and_validate
\* returns or raises (result) and used_ids as it leaves it (ids).  The id is
\* added as soon as it has passed its own checks, before the other fields
\* are looked at (LookUpId); LookUpIdLateAdd is the variant that would add
\* it only when the whole record is accepted.
LookUpIdLateAdd(c, ids) ==
    IF c.id.exc # "none" THEN [result |-> c.id, ids |-> ids]
    ELSE IF c.id.val \in ids
    THEN [result |-> ValidationError(MsgIdUnique), ids |-> ids]
    ELSE [result |-> c.fields,
          ids    |-> IF c.fields.exc = "none" THEN ids \cup {c.id.val} ELSE ids]

LookUpId(c, ids) ==
    IF c.id.exc # "none" THEN [result |-> c.id, ids |-> ids]
    ELSE IF c.id.val \in ids
    THEN [result |-> ValidationError(MsgIdUnique), ids |-> ids]
    ELSE [result |-> c.fields, ids |-> ids \cup {c.id.val}]

\* parse_and_validate(line, line_number, used_ids)
parse_and_validate(line, number, ids) == LookUpId(CheckedLine(line), ids)

(***************************************************************************)
(* calculate_statistics and generate_report.  by_category is a dict: its   *)
(* entries in the order the keys were first set.                           *)
(***************************************************************************)
\* sum(...) of floats: from 0, left to right, each addition rounded (the
\* interpreter of this program; from Python 3.12 sum() compensates the
\* rounding of float additions)
RECURSIVE sum(_)
sum(values) ==
    IF values = <<>> THEN FZero
    ELSE FAdd(sum(SubSeq(values, 1, Len(values) - 1)), values[Len(values)])

Keys(by_category) == {by_category[i].key : i \in 1..Len(by_category)}

\* cat = by_category[r["category"]]; cat["count"] += 1;
\* cat["value"] += r["total_value"], the default entry made on first use
\* (AddToCategory); AddToCategoryNoCount is the variant without the
\* increment of an entry already there
AddToCategoryNoCount(by_category, r) ==
    IF r.category \in Keys(by_category)
    THEN [i \in 1..Len(by_category) |->
            IF by_category[i].key = r.category
            THEN [key   |-> r.category,
                  count |-> by_category[i].count,
                  value |-> FAdd(by_category[i].value, r.total_value)]
            ELSE by_category[i]]
    ELSE Append(by_category,
                [key |-> r.category, count |-> 1, value |-> FAdd(FZero, r.total_value)])

AddToCategory(by_category, r) ==
    IF r.category \in Keys(by_category)
    THEN [i \in 1..Len(by_category) |->
            IF by_category[i].key = r.category
            THEN [key   |-> r.category,
                  count |-> by_category[i].count + 1,
                  value |-> FAdd(by_category[i].value, r.total_value)]
            ELSE by_category[i]]
    ELSE Append(by_category,
                [key |-> r.category, count |-> 0 + 1, value |-> FAdd(FZero, r.total_value)])

\* for r in records: ...
RECURSIVE ByCategory(_)
ByCategory(records) ==
    IF records = <<>> THEN <<>>
    ELSE AddToCategory(ByCategory(SubSeq(records, 1, Len(records) - 1)),
                       records[Len(records)])

calculate_statistics(records) ==
    IF records = <<>>
    THEN [total_value |-> FZero, avg_price |-> FZero, by_category |-> <<>>]
    ELSE [total_value |-> sum([i \in 1..Len(records) |-> records[i].total_value]),
          avg_price   |-> FDiv(sum([i \in 1..Len(records) |-> records[i].final_price]),
                               FloatOf(Len(records))),
          by_category |-> ByCategory(records)]

\* the figures the report is rendered from, in the order of its lines
generate_report(valid, errs, st) ==
    [total       |-> Len(valid) + Len(errs),
     valid       |-> Len(valid),
     invalid     |-> Len(errs),
     total_value |-> st.total_value,
     avg_price   |-> st.avg_price,
     by_category |-> st.by_category,
     errors      |-> errs]

(***************************************************************************)
(* The run: main calls process_file, calculate_statistics, generate_report *)
(* and writes the report.                                                  *)
(***************************************************************************)
VARIABLES
    file,           \* input.txt as the run finds it
    pc,             \* where main is
    line_number,    \* the number of the line last taken from the file
    valid_records,  \* process_file: the records accepted so far
    errors,         \* process_file: the (line_number, message) pairs so far
    used_ids,       \* process_file: the ids that have passed the id check
    source_lines,   \* history: the line number each valid record came from
    stats,          \* main: what calculate_statistics returned
    report,         \* main: what generate_report returned
    output,         \* report.txt
    raised          \* the exception that ended the run, if one did

vars == <<file, pc, line_number, valid_records, errors, used_ids, source_lines,
          stats, report, output, raised>>

None == [exc |-> "none"]

SeqsUpTo(S, n) == UNION {[1..k -> S] : k \in 0..n}

\* a file with an accepted line, a blank line, a rejected line and another
\* accepted line
SampleFile ==
    << "1;Widget;electronics;100.00;2;10;2020-01-01\n",
       "\n",
       "2;Widget;food;50.00;2;25;2020-01-01\n",
       "24;Shirt;clothes;19.99;3;0;2020-01-01\n" >>

\* a file that is there and decodes; one that is not there; one that may
\* not be opened; one whose line `bad` does not decode as UTF-8
TextFiles ==
    {[kind |-> "text", lines |-> l, bad |-> 0] :
        l \in SeqsUpTo(InputLines, MaxLines) \cup SeqsUpTo(StatsLines, MaxStatsLines)
                 \cup {SampleFile}}

GarbledFiles ==
    {[kind |-> "text", lines |-> SampleFile, bad |-> b] : b \in 1..2}

Files == TextFiles \cup GarbledFiles
           \cup {[kind |-> "missing", lines |-> <<>>, bad |-> 0],
                 [kind |-> "denied", lines |-> <<>>, bad |-> 0]}

\* what open(path, encoding="utf-8") raises
OpenError(f) == IF f.kind = "missing" THEN "FileNotFoundError"
                ELSE IF f.kind = "denied" THEN "PermissionError"
                ELSE "none"

\* except FileNotFoundError (Caught); CaughtNothing is the variant without
\* the handler
CaughtNothing(exc) == FALSE

Caught(exc) == exc = "FileNotFoundError"

\* if not line.strip() (IsBlank); IsEmptyOnly is the variant that would
\* take only a line without characters for blank
IsEmptyOnly(line) == line \in {"", "\n"}

IsBlank(line) == strip(line) = ""

\* list.append (append); prepend is the variant that would add at the front
prepend(list, item) == <<item>> \o list

append(list, item) == Append(list, item)

Init ==
    /\ file \in Files
    /\ pc = "open"
    /\ line_number = 0
    /\ valid_records = <<>>
    /\ errors = <<>>
    /\ used_ids = {}
    /\ source_lines = <<>>
    /\ stats = None
    /\ report = None
    /\ output = None
    /\ raised = "none"

\* with open(path, encoding="utf-8") as file
OpenFile ==
    /\ pc = "open"
    /\ OpenError(file) = "none"
    /\ pc' = "read"
    /\ UNCHANGED <<file, line_number, valid_records, errors, used_ids, source_lines,
                   stats, report, output, raised>>

\* open raises FileNotFoundError: process_file returns [], []
FileNotFound ==
    /\ pc = "open"
    /\ OpenError(file) # "none"
    /\ Caught(OpenError(file))
    /\ valid_records' = <<>>
    /\ errors' = <<>>
    /\ source_lines' = <<>>
    /\ pc' = "statistics"
    /\ UNCHANGED <<file, line_number, used_ids, stats, report, output, raised>>

\* open raises something else: nothing catches it
OpenRaises ==
    /\ pc = "open"
    /\ OpenError(file) # "none"
    /\ ~Caught(OpenError(file))
    /\ raised' = OpenError(file)
    /\ pc' = "raised"
    /\ UNCHANGED <<file, line_number, valid_records, errors, used_ids, source_lines,
                   stats, report, output>>

\* the iteration over the file meets bytes that do not decode
ReadRaises ==
    /\ pc = "read"
    /\ file.bad = line_number + 1
    /\ raised' = "UnicodeDecodeError"
    /\ pc' = "raised"
    /\ UNCHANGED <<file, line_number, valid_records, errors, used_ids, source_lines,
                   stats, report, output>>

HasNextLine == /\ pc = "read"
               /\ line_number < Len(file.lines)
               /\ file.bad # line_number + 1

\* a blank line: an error, and on to the next line
BlankLine ==
    /\ HasNextLine
    /\ IsBlank(file.lines[line_number + 1])
    /\ line_number' = line_number + 1
    /\ errors' = append(errors, <<line_number + 1, MsgEmptyLine>>)
    /\ UNCHANGED <<file, pc, valid_records, used_ids, source_lines, stats, report,
                   output, raised>>

\* parse_and_validate returns a record
AcceptLine ==
    /\ HasNextLine
    /\ ~IsBlank(file.lines[line_number + 1])
    /\ \E res \in {parse_and_validate(file.lines[line_number + 1], line_number + 1, used_ids)} :
           /\ res.result.exc = "none"
           /\ valid_records' = append(valid_records, res.result.val)
           /\ source_lines' = append(source_lines, line_number + 1)
           /\ used_ids' = res.ids
    /\ line_number' = line_number + 1
    /\ UNCHANGED <<file, pc, errors, stats, report, output, raised>>

\* parse_and_validate raises ValidationError
RejectLine ==
    /\ HasNextLine
    /\ ~IsBlank(file.lines[line_number + 1])
    /\ \E res \in {parse_and_validate(file.lines[line_number + 1], line_number + 1, used_ids)} :
           /\ res.result.exc = "ValidationError"
           /\ errors' = append(errors, <<line_number + 1, res.result.msg>>)
           /\ used_ids' = res.ids
    /\ line_number' = line_number + 1
    /\ UNCHANGED <<file, pc, valid_records, source_lines, stats, report, output, raised>>

\* parse_and_validate raises anything else: nothing catches it
LineRaises ==
    /\ HasNextLine
    /\ ~IsBlank(file.lines[line_number + 1])
    /\ \E res \in {parse_and_validate(file.lines[line_number + 1], line_number + 1, used_ids)} :
           /\ res.result.exc \notin {"none", "ValidationError"}
           /\ raised' = res.result.exc
           /\ used_ids' = res.ids
    /\ line_number' = line_number + 1
    /\ pc' = "raised"
    /\ UNCHANGED <<file, valid_records, errors, source_lines, stats, report, output>>

\* the file is exhausted: return valid_records, errors
EndOfFile ==
    /\ pc = "read"
    /\ line_number = Len(file.lines)
    /\ file.bad # line_number + 1
    /\ pc' = "statistics"
    /\ UNCHANGED <<file, line_number, valid_records, errors, used_ids, source_lines,
                   stats, report, output, raised>>

CalculateStatistics ==
    /\ pc = "statistics"
    /\ stats' = calculate_statistics(valid_records)
    /\ pc' = "report"
    /\ UNCHANGED <<file, line_number, valid_records, errors, used_ids, source_lines,
                   report, output, raised>>

GenerateReport ==
    /\ pc = "report"
    /\ report' = generate_report(valid_records, errors, stats)
    /\ pc' = "write"
    /\ UNCHANGED <<file, line_number, valid_records, errors, used_ids, source_lines,
                   stats, output, raised>>

WriteReport ==
    /\ pc = "write"
    /\ output' = report
    /\ pc' = "done"
    /\ UNCHANGED <<file, line_number, valid_records, errors, used_ids, source_lines,
                   stats, report, raised>>

Next ==
    \/ OpenFile
    \/ FileNotFound
    \/ OpenRaises
    \/ ReadRaises
    \/ BlankLine
    \/ AcceptLine
    \/ RejectLine
    \/ LineRaises
    \/ EndOfFile
    \/ CalculateStatistics
    \/ GenerateReport
    \/ WriteReport

Spec == Init /\ [][Next]_vars

(***************************************************************************)
(* The properties.  The rules of the validator are written a second time   *)
(* here, as the specification words them (what a field must be, not what   *)
(* the code tests), to judge each line apart from FieldChecks.             *)
(***************************************************************************)
IsPositiveInt(i) == ~IntIsNeg(i) /\ ~IntIsZero(i)

\* a line that is empty or holds whitespace only
AllWhitespace(line) == \A i \in 1..Len(line) : Char(line, i) \in Whitespace

\* field count and the id's own rules: the reason of the first violated, ""
\* when none is
HeadRule(p) ==
    IF Len(p) # 7 THEN MsgFieldCount
    ELSE IF int(p[1]).exc # "none" THEN MsgIdFormat
    ELSE IF ~IsPositiveInt(int(p[1]).val) THEN MsgIdPositive
    ELSE ""

\* name, category, price, quantity, discount, food cap and date: the reason
\* of the first violated, "" when none is
FieldRule(name, category, price, quantity, discount, created_at) ==
    IF ~(3 <= Len(name) /\ Len(name) <= 50) THEN MsgNameLength
    ELSE IF category \notin {"electronics", "food", "books", "clothes"} THEN MsgCategory
    ELSE IF price.exc # "none" THEN MsgPriceFormat
    ELSE IF ~FGt(price.val, FloatOf(0)) THEN MsgPricePositive
    ELSE IF quantity.exc # "none" THEN MsgQtyFormat
    ELSE IF IntIsNeg(quantity.val) THEN MsgQtyNegative
    ELSE IF discount.exc # "none" THEN MsgDiscountFormat
    ELSE IF ~(FLe(FloatOf(0), discount.val) /\ FLe(discount.val, FloatOf(50)))
    THEN MsgDiscountRange
    ELSE IF category = "food" /\ ~FLe(discount.val, FloatOf(20)) THEN MsgFoodDiscount
    ELSE IF created_at.exc # "none" THEN MsgDateFormat
    ELSE IF DateAfter(created_at.val, Today) THEN MsgDateFuture
    ELSE ""

Judge(line, p, head) ==
    [line |-> line,
     head |-> head,
     id   |-> IF head = "" THEN int(p[1]).val ELSE "",
     rest |-> IF head = ""
              THEN FieldRule(strip(p[2]), p[3], float(p[4]), int(p[5]), float(p[6]),
                             strptime(p[7]))
              ELSE ""]

Judged == {Judge(l, Parts(l), HeadRule(Parts(l))) : l \in AllLines}

\* price * (1 - discount / 100), not rounded, and the quantity as a float, of
\* the lines whose price, quantity and discount parse
Priced(v, p) ==
    [line      |-> v.line,
     unrounded |-> FMul(float(p[4]).val,
                        FSub(FloatOf(1), FDiv(float(p[6]).val, FloatOf(100)))),
     quantity  |-> IntToFloat(int(p[5]).val)]

HasNumbers(p) ==
    /\ Len(p) = 7
    /\ float(p[4]).exc = "none"
    /\ int(p[5]).exc = "none"
    /\ float(p[6]).exc = "none"

PricedLines == {Priced(v, Parts(v.line)) : v \in {w \in Judged : HasNumbers(Parts(w.line))}}

\* line j of the file, and what the rules say of it
Line(j) == file.lines[j]

Verdict(j) == CHOOSE v \in Judged : v.line = Line(j)

Prices(j) == CHOOSE v \in PricedLines : v.line = Line(j)

HasId(j) == ~AllWhitespace(Line(j)) /\ Verdict(j).head = ""

IdTakenBefore(j) == \E i \in 1..(j - 1) : HasId(i) /\ Verdict(i).id = Verdict(j).id

PassesRules1to9(j) == HasId(j) /\ ~IdTakenBefore(j) /\ Verdict(j).rest = ""

\* the reason the rules give for line j, "" when it breaks none of them
FirstViolated(j) ==
    IF Verdict(j).head # "" THEN Verdict(j).head
    ELSE IF IdTakenBefore(j) THEN MsgIdUnique
    ELSE IF Verdict(j).rest # "" THEN Verdict(j).rest
    ELSE IF FLt(Prices(j).unrounded, FloatOf(1)) THEN MsgFinalPrice
    ELSE ""

\* what process_file has made of line j
Rejected(j, msg) == \E k \in 1..Len(errors) : errors[k] = <<j, msg>>

Accepted(j) == \E k \in 1..Len(source_lines) : source_lines[k] = j

RecordOf(j) == valid_records[CHOOSE k \in 1..Len(source_lines) : source_lines[k] = j]

\* C1: no two valid records share an id, and a line whose id is that of an
\* earlier line which passed the id check is rejected with 'id must be
\* unique', whatever became of the earlier line
C1_UniqueIds ==
    /\ \A a, b \in 1..Len(valid_records) :
          a # b => valid_records[a].id # valid_records[b].id
    /\ \A j \in 1..line_number :
          (HasId(j) /\ IdTakenBefore(j)) => Rejected(j, MsgIdUnique)

\* line 1 passed the id check and failed on its name; line 2 has its id
C1_Witness ==
    /\ line_number = 2
    /\ errors = << <<1, MsgNameLength>>, <<2, MsgIdUnique>> >>
    /\ Verdict(1).id = Verdict(2).id

\* C2 as stated: every non-blank line taken is rejected with the reason of
\* the first rule it violates, and accepted when it violates none
C2_FirstViolatedReported ==
    \A j \in 1..line_number :
        ~AllWhitespace(Line(j)) =>
            IF FirstViolated(j) = "" THEN Accepted(j)
            ELSE Rejected(j, FirstViolated(j)) /\ ~Accepted(j)

\* C3 as stated: every valid record has final_price >= 1, quantity >= 0, an
\* allowed category, id > 0 and a name of 3 to 50 characters
C3_RecordInvariant ==
    \A k \in 1..Len(valid_records) :
        /\ FLe(FloatOf(1), valid_records[k].final_price)
        /\ ~IntIsNeg(valid_records[k].quantity)
        /\ valid_records[k].category \in {"electronics", "food", "books", "clothes"}
        /\ IsPositiveInt(valid_records[k].id)
        /\ 3 <= Len(valid_records[k].name) /\ Len(valid_records[k].name) <= 50

C5_FloorOnUnrounded ==
    \A j \in 1..line_number :
        PassesRules1to9(j) =>
            /\ Rejected(j, MsgFinalPrice) <=> FLt(Prices(j).unrounded, FloatOf(1))
            /\ Accepted(j) => RecordOf(j).final_price = PyRound2(Prices(j).unrounded)

\* C5 as stated: the line is rejected exactly when the rounded value is
\* below 1, and a record made of it holds the rounded value
C5_FloorOnRounded ==
    \A j \in 1..line_number :
        PassesRules1to9(j) =>
            /\ Rejected(j, MsgFinalPrice)
                 <=> FLt(PyRound2(Prices(j).unrounded), FloatOf(1))
            /\ Accepted(j) => RecordOf(j).final_price = PyRound2(Prices(j).unrounded)

\* a line rejected for its final price although the price rounds to 1.00
C5_Witness ==
    \E j \in 1..line_number :
        /\ PassesRules1to9(j)
        /\ Rejected(j, MsgFinalPrice)
        /\ ~FLt(PyRound2(Prices(j).unrounded), FloatOf(1))

\* C6: the step that takes a blank line adds exactly one error, 'empty
\* line' with that line's number, and leaves used_ids and valid_records as
\* they were
C6_BlankLineFrame ==
    [][(/\ pc = "read"
        /\ line_number' = line_number + 1
        /\ AllWhitespace(Line(line_number + 1)))
       => /\ errors' = Append(errors, <<line_number + 1, MsgEmptyLine>>)
          /\ used_ids' = used_ids
          /\ valid_records' = valid_records
          /\ pc' = "read"]_vars

\* a whitespace-only second line, recorded after a record was accepted
C6_Witness ==
    /\ line_number = 2
    /\ Line(2) = "  \t\n"
    /\ errors = << <<2, MsgEmptyLine>> >>
    /\ Len(valid_records) = 1
    /\ used_ids = {valid_records[1].id}

\* the report of a run that found nothing
EmptyReport ==
    [total |-> 0, valid |-> 0, invalid |-> 0, total_value |-> FZero,
     avg_price |-> FZero, by_category |-> <<>>, errors |-> <<>>]

CannotBeRead(f) == f.kind # "text" \/ f.bad # 0

C8_EveryLineHandled ==
    ~CannotBeRead(file) =>
        /\ pc # "raised"
        /\ Len(valid_records) + Len(errors) = line_number
        /\ \A j \in 1..line_number : Accepted(j) # (\E k \in 1..Len(errors) : errors[k][1] = j)
        /\ pc \notin {"open", "read"} => line_number = Len(file.lines)
        /\ pc \in {"write", "done"} => report.total = Len(file.lines)

\* C9: the line numbers of errors are strictly increasing, and so are the
\* line numbers the valid records came from, each record being that of its
\* line
C9_OrderPreserved ==
    /\ \A a, b \in 1..Len(errors) : a < b => errors[a][1] < errors[b][1]
    /\ Len(source_lines) = Len(valid_records)
    /\ \A a, b \in 1..Len(source_lines) : a < b => source_lines[a] < source_lines[b]
    /\ \A k \in 1..Len(valid_records) :
          valid_records[k].id = Verdict(source_lines[k]).id

\* two records and two errors, in the order of their lines
C9_Witness ==
    /\ source_lines = <<1, 4>>
    /\ Len(errors) = 2 /\ errors[1][1] = 2 /\ errors[2][1] = 3
    /\ valid_records[1].id # valid_records[2].id

\* sum(...) once more, from the front
RECURSIVE FoldSum(_, _, _)
FoldSum(values, i, acc) ==
    IF i > Len(values) THEN acc ELSE FoldSum(values, i + 1, FAdd(acc, values[i]))

RECURSIVE CountSum(_)
CountSum(by_category) ==
    IF by_category = <<>> THEN 0 ELSE by_category[1].count + CountSum(Tail(by_category))

TotalValues == [i \in 1..Len(valid_records) |-> valid_records[i].total_value]

\* the by_category values added up as floats, in the order of the dict
CategoryValueSum(st) ==
    FoldSum([i \in 1..Len(st.by_category) |-> st.by_category[i].value], 1, FZero)

\* the exact |a| as a multiple of 2^low, for a finite a
Magnitude(a, low) == IF a.m = <<>> THEN <<>> ELSE BShl(a.m, a.e - low)

RECURSIVE ExactSum(_, _)
ExactSum(values, low) ==
    IF values = <<>> THEN <<>>
    ELSE BAdd(Magnitude(values[1], low), ExactSum(Tail(values), low))

ExactDistance(a, b, low) ==
    IF a.neg # b.neg THEN BAdd(Magnitude(a, low), Magnitude(b, low))
    ELSE IF BCmp(Magnitude(a, low), Magnitude(b, low)) >= 0
    THEN BSub(Magnitude(a, low), Magnitude(b, low))
    ELSE BSub(Magnitude(b, low), Magnitude(a, low))

LowestExponent(fs) == CHOOSE e \in {f.e : f \in fs} : \A f \in fs : e <= f.e

\* a and b are the same, or are two roundings of the sum of the finite
\* values: |a - b| <= n * 2^-52 * (|v1| + ... + |vn|)
WithinRounding(a, b, values) ==
    \/ a = b
    \/ /\ a.k = "fin" /\ b.k = "fin"
       /\ \A i \in 1..Len(values) : values[i].k = "fin"
       /\ LET low == LowestExponent({a, b} \cup {values[i] : i \in 1..Len(values)})
          IN  BCmp(BShl(ExactDistance(a, b, low), 52),
                   BMulSmall(ExactSum(values, low), Len(values), 0)) <= 0

CountsAndKeys(st) ==
    /\ CountSum(st.by_category) = Len(valid_records)
    /\ Keys(st.by_category) = {valid_records[i].category : i \in 1..Len(valid_records)}
    /\ Cardinality(Keys(st.by_category)) = Len(st.by_category)
    /\ valid_records = <<>> => st.total_value = FZero /\ st.by_category = <<>>

\* C10, amended: total_value is the sum of the records' total_value; the
\* by_category values add up to it within the rounding of the additions;
\* the counts add up to the number of records; the keys are the categories
\* of the records; no records give zero and an empty mapping
C10_SumsWithinRounding ==
    stats # None =>
        /\ stats.total_value = FoldSum(TotalValues, 1, FZero)
        /\ WithinRounding(CategoryValueSum(stats), stats.total_value, TotalValues)
        /\ CountsAndKeys(stats)

\* C10 as stated: the by_category values add up to exactly total_value
C10_SumsExact ==
    stats # None =>
        /\ stats.total_value = FoldSum(TotalValues, 1, FZero)
        /\ CategoryValueSum(stats) = stats.total_value
        /\ CountsAndKeys(stats)

\* three records of two categories whose values add up differently by
\* category
C10_Witness ==
    /\ stats # None
    /\ Len(valid_records) = 3
    /\ Len(stats.by_category) = 2
    /\ CategoryValueSum(stats) # stats.total_value

====
